---- MODULE Spec2Model ----
(***************************************************************************)
(* End-to-end-encrypted messaging layer of UT-Marketplace.                 *)
(*                                                                         *)
(*   app/lib/encryption.ts          key codec, message cipher, key vault   *)
(*   app/lib/database/KeyService.ts user_keys table access                 *)
(*   app/context/CryptoContext.tsx  in-memory session key cache            *)
(*   app/lib/database/MessageService.ts  send, fetch, previews, realtime   *)
(*   app/messages/page.tsx          message list of the open conversation  *)
(*   DATABASE_MIGRATION.sql         user_keys and its row level security   *)
(*                                                                         *)
(* The Web Crypto primitives (RSA-OAEP, PBKDF2, AES-GCM, the CSPRNG) are   *)
(* modelled symbolically: a ciphertext is a term that records the key it   *)
(* was made under and opens only under the matching key.  The text         *)
(* conversions (TextEncoder, TextDecoder, atob) are computed as the        *)
(* platform computes them, on UTF-16 code units and bytes.                 *)
(***************************************************************************)
EXTENDS Integers, Sequences, FiniteSets, TLC

VARIABLES
    cipher,      \* one run of encryptMessage / decryptMessage (test page state)
    vault,       \* one run of encryptPrivateKey / decryptPrivateKey
    user_keys,   \* table user_keys: user_id -> row
    crypto,      \* CryptoProvider state as of its last render
    pending,     \* state updates queued by React for the next render
    mounted,     \* CryptoProvider is mounted
    lastOp,      \* the call or step taken last, with its arguments
    lastKeysCall,\* the last setKeys / clearKeys call that took effect
    accounts,    \* registered users
    authUser,    \* the user of the Supabase session, if any
    flow,        \* the signup / login / logout handler in progress
    messages,    \* table messages, in insertion order
    inbox,       \* the MessageService call made last, with its result
    calls,       \* per client: the KeyService call in progress
    page         \* the messages page of one tab and its subscription

cacheVars == <<crypto, pending, mounted, lastOp, lastKeysCall>>
authVars == <<accounts, authUser, flow>>
msgVars == <<messages, inbox, page>>
vars == <<cipher, vault, user_keys, crypto, pending, mounted, lastOp,
          lastKeysCall, accounts, authUser, flow, messages, inbox, calls,
          page>>

(***************************************************************************)
(* Bounds of the model.                                                    *)
(***************************************************************************)
MaxLen == 2        \* longest enumerated message text, in code units
MaxKeys == 2       \* key pairs that generateKeyPair hands out
MaxSeed == 2       \* values the random source hands out per purpose
MaxUsers == 2      \* user identities
MaxClients == 2    \* browser sessions calling KeyService at the same time
MaxMessages == 2   \* rows of the table messages
MaxPending == 4    \* state updates queued between two renders
MaxCalls == 2      \* calls of encryptPrivateKey in one run

(***************************************************************************)
(* Program constants.                                                      *)
(***************************************************************************)
modulusLength == 2048          \* RSA modulus, bits
hashLength == 256              \* SHA-256 digest, bits
\* RSA-OAEP payload limit in bytes: k - 2*hLen - 2  (190 for 2048/SHA-256)
MaxPayload == (modulusLength \div 8) - 2 * (hashLength \div 8) - 2

(***************************************************************************)
(* JavaScript values.  A string is one of                                  *)
(*   text : a sequence of UTF-16 code units                                *)
(*   b64  : btoa of a binary buffer (pure base64 alphabet)                 *)
(*   json : JSON.stringify of {salt, iv, data}                             *)
(* and a buffer is one of                                                  *)
(*   bytes: a concrete byte sequence (TextEncoder output of a text)        *)
(*   ascii: the bytes of a b64 string (one byte per character)             *)
(*   raw   : atob of a text (bytes that are neither key nor ciphertext)    *)
(*   spki, pkcs8, rsa, gcm : outputs of the crypto primitives              *)
(***************************************************************************)
Null == [kind |-> "null"]
T(cu) == [kind |-> "text", cu |-> cu]
B64(buf) == [kind |-> "b64", buf |-> buf]
Bytes(b) == [kind |-> "bytes", b |-> b]

Ok(v) == [tag |-> "ok", v |-> v]
Throw(msg) == [tag |-> "throw", msg |-> msg]
IsOk(r) == r.tag = "ok"

\* Code points the text decoder treats specially
cuBOM == 65279           \* U+FEFF BYTE ORDER MARK
cuRepl == 65533          \* U+FFFD REPLACEMENT CHARACTER
cuEq == 61               \* '=', the base64 padding character

IsHigh(c) == c >= 55296 /\ c <= 56319
IsLow(c) == c >= 56320 /\ c <= 57343

\* the concatenation of parts[lo], ..., parts[hi]
RECURSIVE Concat(_, _, _)
Concat(parts, lo, hi) ==
    IF lo > hi THEN <<>>
    ELSE IF lo = hi THEN parts[lo]
    ELSE LET mid == (lo + hi) \div 2
         IN  Concat(parts, lo, mid) \o Concat(parts, mid + 1, hi)

Flatten(parts) == Concat(parts, 1, Len(parts))

\* String -> USVString: a surrogate pair is one scalar value, a lone
\* surrogate becomes U+FFFD.
ToScalars(cu) ==
    Flatten([i \in 1..Len(cu) |->
        IF IsHigh(cu[i]) /\ i < Len(cu) /\ IsLow(cu[i + 1])
        THEN <<65536 + (cu[i] - 55296) * 1024 + (cu[i + 1] - 56320)>>
        ELSE IF IsLow(cu[i]) /\ i > 1 /\ IsHigh(cu[i - 1]) THEN <<>>
        ELSE IF IsHigh(cu[i]) \/ IsLow(cu[i]) THEN <<cuRepl>>
        ELSE <<cu[i]>>])

Utf8Of(cp) ==
    IF cp < 128 THEN <<cp>>
    ELSE IF cp < 2048 THEN <<192 + (cp \div 64), 128 + (cp % 64)>>
    ELSE IF cp < 65536
    THEN <<224 + (cp \div 4096), 128 + ((cp \div 64) % 64), 128 + (cp % 64)>>
    ELSE <<240 + (cp \div 262144), 128 + ((cp \div 4096) % 64),
           128 + ((cp \div 64) % 64), 128 + (cp % 64)>>

Utf8Encode(cps) == Flatten([i \in 1..Len(cps) |-> Utf8Of(cps[i])])

IsCont(b, i) == i >= 1 /\ i <= Len(b) /\ b[i] >= 128 /\ b[i] < 192

\* length of the well-formed UTF-8 sequence that starts at b[i], 0 if none
Utf8SeqLen(b, i) ==
    IF i < 1 \/ i > Len(b) THEN 0
    ELSE IF b[i] < 128 THEN 1
    ELSE IF b[i] >= 192 /\ b[i] < 224 /\ IsCont(b, i + 1) THEN 2
    ELSE IF b[i] >= 224 /\ b[i] < 240 /\ IsCont(b, i + 1) /\ IsCont(b, i + 2) THEN 3
    ELSE IF b[i] >= 240 /\ b[i] < 248 /\ IsCont(b, i + 1) /\ IsCont(b, i + 2)
            /\ IsCont(b, i + 3) THEN 4
    ELSE 0

\* UTF-8 decode, replacement mode: an ill-formed byte yields U+FFFD.
Utf8Decode(b) ==
    Flatten([i \in 1..Len(b) |->
        LET n == Utf8SeqLen(b, i) IN
        IF n = 1 THEN <<b[i]>>
        ELSE IF n = 2 THEN <<(b[i] - 192) * 64 + (b[i + 1] - 128)>>
        ELSE IF n = 3
        THEN <<(b[i] - 224) * 4096 + (b[i + 1] - 128) * 64 + (b[i + 2] - 128)>>
        ELSE IF n = 4
        THEN <<(b[i] - 240) * 262144 + (b[i + 1] - 128) * 4096
                  + (b[i + 2] - 128) * 64 + (b[i + 3] - 128)>>
        ELSE IF \E d \in 1..3 : Utf8SeqLen(b, i - d) > d THEN <<>>
        ELSE <<cuRepl>>])

ToCodeUnits(cps) ==
    Flatten([i \in 1..Len(cps) |->
        IF cps[i] >= 65536
        THEN <<55296 + ((cps[i] - 65536) \div 1024),
               56320 + ((cps[i] - 65536) % 1024)>>
        ELSE <<cps[i]>>])

\* new TextEncoder().encode(s)
TextEncode(s) ==
    IF s.kind = "text" THEN Bytes(Utf8Encode(ToScalars(s.cu)))
    ELSE [kind |-> "ascii", s |-> s]

\* new TextDecoder().decode(buf): utf-8, fatal = false, ignoreBOM = false, so
\* a leading U+FEFF is dropped from the output.
TextDecode(buf) ==
    IF buf.kind = "bytes"
    THEN LET cps == Utf8Decode(buf.b)
             body == IF cps # <<>> /\ cps[1] = cuBOM THEN Tail(cps) ELSE cps
         IN  T(ToCodeUnits(body))
    ELSE IF buf.kind = "ascii" THEN buf.s
    ELSE T(<<cuRepl>>)

\* byteLength of a buffer handed to RSA-OAEP.  The bytes of a transport
\* string (a key or a ciphertext, 344 characters and more) exceed the limit.
ByteLength(buf) ==
    IF buf.kind = "bytes" THEN Len(buf.b) ELSE MaxPayload + 1

IsBase64Char(c) ==
    \/ c >= 65 /\ c <= 90
    \/ c >= 97 /\ c <= 122
    \/ c >= 48 /\ c <= 57
    \/ c = 43
    \/ c = 47

IsAsciiSpace(c) == c \in {9, 10, 12, 13, 32}

\* atob's forgiving-base64 decode succeeds on a text
AtobOk(cu) ==
    LET s1 == SelectSeq(cu, LAMBDA c : ~IsAsciiSpace(c))
        n1 == Len(s1)
        pad == IF n1 % 4 = 0 /\ n1 >= 2 /\ s1[n1] = cuEq /\ s1[n1 - 1] = cuEq THEN 2
               ELSE IF n1 % 4 = 0 /\ n1 >= 1 /\ s1[n1] = cuEq THEN 1
               ELSE 0
        s2 == SubSeq(s1, 1, n1 - pad)
    IN  /\ Len(s2) % 4 # 1
        /\ \A i \in 1..Len(s2) : IsBase64Char(s2[i])

(***************************************************************************)
(* encryption.ts: utility functions                                        *)
(***************************************************************************)
arrayBufferToBase64(buffer) == B64(buffer)

base64ToArrayBuffer(base64) ==
    IF base64.kind = "b64" THEN Ok(base64.buf)
    ELSE IF base64.kind = "text" /\ AtobOk(base64.cu)
    THEN Ok([kind |-> "raw", of |-> base64])
    ELSE Throw("InvalidCharacterError")

\* typeof key === 'string'
IsString(key) == key.kind \in {"text", "b64", "json"}

isValidKey_ImportsKey(key) ==
    IF key.kind \in {"null", "undefined"} THEN FALSE
    ELSE IF key.kind = "text" /\ key.cu = <<>> THEN FALSE
    ELSE IF ~IsString(key) THEN FALSE
    ELSE /\ IsOk(base64ToArrayBuffer(key))
         /\ base64ToArrayBuffer(key).v.kind \in {"spki", "pkcs8"}

isValidKey(key) ==
    IF key.kind \in {"null", "undefined"} THEN FALSE          \* !key
    ELSE IF key.kind = "text" /\ key.cu = <<>> THEN FALSE     \* !key
    ELSE IF ~IsString(key) THEN FALSE
    ELSE IsOk(base64ToArrayBuffer(key))

(***************************************************************************)
(* Web Crypto primitives                                                   *)
(***************************************************************************)
\* crypto.subtle.importKey(format, buffer, RSA-OAEP, ...)
importKey(format, buffer) ==
    IF buffer.kind = format THEN Ok([k |-> buffer.k]) ELSE Throw("DataError")

\* crypto.subtle.encrypt({name: 'RSA-OAEP'}, publicKey, data)
rsaEncrypt(publicKey, data, seed) ==
    IF ByteLength(data) > MaxPayload THEN Throw("OperationError")
    ELSE Ok([kind |-> "rsa", k |-> publicKey.k, seed |-> seed, pt |-> data])

\* crypto.subtle.decrypt({name: 'RSA-OAEP'}, privateKey, encryptedData)
rsaDecrypt(privateKey, encryptedData) ==
    IF encryptedData.kind = "rsa" /\ encryptedData.k = privateKey.k
    THEN Ok(encryptedData.pt)
    ELSE Throw("OperationError")

(***************************************************************************)
(* encryption.ts: key generation and message cipher                        *)
(***************************************************************************)
\* the k-th pair that crypto.subtle.generateKey produces
generateKeyPair(k) ==
    [publicKey |-> arrayBufferToBase64([kind |-> "spki", k |-> k]),
     privateKey |-> arrayBufferToBase64([kind |-> "pkcs8", k |-> k])]

encryptMessage(plaintext, receiverPublicKeyBase64, seed) ==
    LET publicKeyBuffer == base64ToArrayBuffer(receiverPublicKeyBase64)
        publicKey == importKey("spki", publicKeyBuffer.v)
        data == TextEncode(plaintext)
        encryptedData == rsaEncrypt(publicKey.v, data, seed)
    IN  IF IsOk(publicKeyBuffer) /\ IsOk(publicKey) /\ IsOk(encryptedData)
        THEN Ok(arrayBufferToBase64(encryptedData.v))
        ELSE Throw("Failed to encrypt message")

\* '[Unable to decrypt message]'
UnableToDecrypt ==
    T(<<91, 85, 110, 97, 98, 108, 101, 32, 116, 111, 32, 100, 101, 99, 114,
        121, 112, 116, 32, 109, 101, 115, 115, 97, 103, 101, 93>>)

decryptMessage_ReturnsInput(encryptedBase64, privateKeyBase64) ==
    LET privateKeyBuffer == base64ToArrayBuffer(privateKeyBase64)
        privateKey == importKey("pkcs8", privateKeyBuffer.v)
        encryptedData == base64ToArrayBuffer(encryptedBase64)
        decryptedData == rsaDecrypt(privateKey.v, encryptedData.v)
    IN  IF /\ IsOk(privateKeyBuffer)
           /\ IsOk(privateKey)
           /\ IsOk(encryptedData)
           /\ IsOk(decryptedData)
        THEN Ok(TextDecode(decryptedData.v))
        ELSE Ok(encryptedBase64)

decryptMessage_Rethrows(encryptedBase64, privateKeyBase64) ==
    LET privateKeyBuffer == base64ToArrayBuffer(privateKeyBase64)
        privateKey == importKey("pkcs8", privateKeyBuffer.v)
        encryptedData == base64ToArrayBuffer(encryptedBase64)
        decryptedData == rsaDecrypt(privateKey.v, encryptedData.v)
    IN  IF /\ IsOk(privateKeyBuffer)
           /\ IsOk(privateKey)
           /\ IsOk(encryptedData)
           /\ IsOk(decryptedData)
        THEN Ok(TextDecode(decryptedData.v))
        ELSE Throw("Failed to decrypt message")

\* every failure inside the try block ends in the catch block's marker
decryptMessage(encryptedBase64, privateKeyBase64) ==
    LET privateKeyBuffer == base64ToArrayBuffer(privateKeyBase64)
        privateKey == importKey("pkcs8", privateKeyBuffer.v)
        encryptedData == base64ToArrayBuffer(encryptedBase64)
        decryptedData == rsaDecrypt(privateKey.v, encryptedData.v)
    IN  IF /\ IsOk(privateKeyBuffer)
           /\ IsOk(privateKey)
           /\ IsOk(encryptedData)
           /\ IsOk(decryptedData)
        THEN Ok(TextDecode(decryptedData.v))
        ELSE Ok(UnableToDecrypt)

(***************************************************************************)
(* encryption.ts: private key protection                                   *)
(***************************************************************************)
iterations == 100000           \* PBKDF2 rounds

\* crypto.subtle.deriveKey({name: 'PBKDF2', salt, iterations, hash}, ...):
\* the AES key is a function of the password bytes, the salt and the rounds.
deriveKey(passwordBytes, salt, rounds) ==
    [pw |-> passwordBytes, salt |-> salt, rounds |-> rounds]

\* crypto.subtle.encrypt({name: 'AES-GCM', iv}, key, data)
gcmEncrypt(key, iv, data) ==
    [kind |-> "gcm", key |-> key, iv |-> iv, pt |-> data]

\* crypto.subtle.decrypt({name: 'AES-GCM', iv}, key, data): the tag verifies
\* only under the key and the iv of the encryption.
gcmDecrypt(key, iv, data) ==
    IF data.kind = "gcm" /\ data.key = key /\ data.iv = iv
    THEN Ok(data.pt)
    ELSE Throw("OperationError")

\* JSON.stringify({salt, iv, data})
JsonBlob(salt, iv, data) ==
    [kind |-> "json", salt |-> salt, iv |-> iv, data |-> data]

\* crypto.getRandomValues(new Uint8Array(n)): the source is a CSPRNG, taken
\* as ideal: of the values of its range it hands out one that it has not
\* handed out before.
getRandomValues(range, handedOut) == range \ handedOut

encryptPrivateKey_FixedSalt(privateKey, password, salt, iv) ==
    LET key == deriveKey(TextEncode(password), 1, iterations)
        encryptedData == gcmEncrypt(key, iv, TextEncode(privateKey))
    IN  Ok(JsonBlob(1, iv, encryptedData))

\* salt, iv: the values the two getRandomValues calls return
encryptPrivateKey(privateKey, password, salt, iv) ==
    LET key == deriveKey(TextEncode(password), salt, iterations)
        encryptedData == gcmEncrypt(key, iv, TextEncode(privateKey))
    IN  Ok(JsonBlob(salt, iv, encryptedData))

decryptPrivateKey_HalfRounds(encryptedPrivateKey, password) ==
    LET parsed == IF encryptedPrivateKey.kind = "json"
                  THEN Ok(encryptedPrivateKey)
                  ELSE Throw("SyntaxError")
        key == deriveKey(TextEncode(password), parsed.v.salt, iterations \div 2)
        decryptedData == gcmDecrypt(key, parsed.v.iv, parsed.v.data)
    IN  IF IsOk(parsed) /\ IsOk(decryptedData)
        THEN Ok(TextDecode(decryptedData.v))
        ELSE Throw("Invalid password or corrupted key")

decryptPrivateKey(encryptedPrivateKey, password) ==
    LET parsed == IF encryptedPrivateKey.kind = "json"
                  THEN Ok(encryptedPrivateKey)
                  ELSE Throw("SyntaxError")
        key == deriveKey(TextEncode(password), parsed.v.salt, iterations)
        decryptedData == gcmDecrypt(key, parsed.v.iv, parsed.v.data)
    IN  IF IsOk(parsed) /\ IsOk(decryptedData)
        THEN Ok(TextDecode(decryptedData.v))
        ELSE Throw("Invalid password or corrupted key")

(***************************************************************************)
(* KeyService.ts over the table user_keys (user_id is the primary key)     *)
(***************************************************************************)
NoRow == [kind |-> "norow"]

insertUserKeys_Upserts(table, userId, row) ==
    [error |-> FALSE, table |-> [table EXCEPT ![userId] = row]]

\* supabase.from('user_keys').insert(row): a second row for a user_id
\* violates the primary key and is refused
insertUserKeys(table, userId, row) ==
    IF table[userId] = NoRow
    THEN [error |-> FALSE, table |-> [table EXCEPT ![userId] = row]]
    ELSE [error |-> TRUE, table |-> table]

generateAndStoreUserKeys_StoresRawKey(table, userId, password, k, salt, iv) ==
    LET pair == generateKeyPair(k)
        encryptedPrivateKey == encryptPrivateKey(pair.privateKey, password, salt, iv)
        stored == insertUserKeys(table, userId,
                      [public_key |-> pair.publicKey,
                       encrypted_private_key |-> pair.privateKey])
    IN  IF ~IsOk(encryptedPrivateKey) \/ stored.error
        THEN [table |-> table, ret |-> Null]
        ELSE [table |-> stored.table,
              ret |-> [kind |-> "UserKeys", userId |-> userId,
                       publicKey |-> pair.publicKey,
                       encryptedPrivateKey |-> encryptedPrivateKey.v]]

\* k, salt, iv: what the key generator and the random source hand out
generateAndStoreUserKeys(table, userId, password, k, salt, iv) ==
    LET pair == generateKeyPair(k)
        encryptedPrivateKey == encryptPrivateKey(pair.privateKey, password, salt, iv)
        stored == insertUserKeys(table, userId,
                      [public_key |-> pair.publicKey,
                       encrypted_private_key |-> encryptedPrivateKey.v])
    IN  IF ~IsOk(encryptedPrivateKey) \/ stored.error
        THEN [table |-> table, ret |-> Null]
        ELSE [table |-> stored.table,
              ret |-> [kind |-> "UserKeys", userId |-> userId,
                       publicKey |-> pair.publicKey,
                       encryptedPrivateKey |-> encryptedPrivateKey.v]]

getUserKeys(table, userId) ==
    IF table[userId] = NoRow THEN Null
    ELSE [kind |-> "UserKeys", userId |-> userId,
          publicKey |-> table[userId].public_key,
          encryptedPrivateKey |-> table[userId].encrypted_private_key]

getUserKeysDecrypted_ThrowsWhenMissing(table, userId, password) ==
    LET keys == getUserKeys(table, userId)
        privateKey == decryptPrivateKey(keys.encryptedPrivateKey, password)
    IN  IF keys = Null \/ ~IsOk(privateKey)
        THEN Throw("Failed to decrypt keys - invalid password?")
        ELSE Ok([kind |-> "DecryptedUserKeys", userId |-> keys.userId,
                 publicKey |-> keys.publicKey, privateKey |-> privateKey.v])

getUserKeysDecrypted(table, userId, password) ==
    LET keys == getUserKeys(table, userId)
        privateKey == decryptPrivateKey(keys.encryptedPrivateKey, password)
    IN  IF keys = Null THEN Ok(Null)
        ELSE IF ~IsOk(privateKey)
        THEN Throw("Failed to decrypt keys - invalid password?")
        ELSE Ok([kind |-> "DecryptedUserKeys", userId |-> keys.userId,
                 publicKey |-> keys.publicKey, privateKey |-> privateKey.v])

(***************************************************************************)
(* DATABASE_MIGRATION.sql: row level security of user_keys.  The SELECT    *)
(* policies are permissive: a row is returned, with all its columns, when  *)
(* the USING expression of at least one of them holds for it.              *)
(***************************************************************************)
\* auth.uid() = user_id; auth is the session's user, if any
IsOwner(auth, user_id) == auth = [kind |-> "uid", id |-> user_id]

\* "Anyone can read public keys": FOR SELECT USING (true)
AnyoneCanReadPublicKeys(auth, user_id) == TRUE

\* "Users can read own encrypted private key": FOR SELECT USING (auth.uid() = user_id)
UsersCanReadOwnEncryptedPrivateKey(auth, user_id) == IsOwner(auth, user_id)

\* the table as a SELECT of the session sees it
selectUserKeys(table, auth) ==
    [u \in DOMAIN table |->
        IF \/ AnyoneCanReadPublicKeys(auth, u)
           \/ UsersCanReadOwnEncryptedPrivateKey(auth, u)
        THEN table[u]
        ELSE [kind |-> "norow"]]

(***************************************************************************)
(* CryptoContext.tsx: three useState cells.  A setter call queues an       *)
(* update; React applies the queued updates together at the next render,   *)
(* and consumers of the context read the values of the last render.        *)
(***************************************************************************)
Uid(u) == [kind |-> "uid", id |-> u]

EmptyCrypto == [privateKey |-> Null, publicKey |-> Null, userId |-> Null]

Update(cell, value) == [cell |-> cell, value |-> value]

setKeys_KeepsPrivateKeyOnly(newPrivateKey, newPublicKey) ==
    IF ~isValidKey(newPrivateKey) \/ ~isValidKey(newPublicKey)
    THEN <<>>
    ELSE <<Update("privateKey", newPrivateKey)>>

setKeys_RejectsOnlyBothInvalid(newPrivateKey, newPublicKey) ==
    IF ~isValidKey(newPrivateKey) /\ ~isValidKey(newPublicKey)
    THEN <<>>
    ELSE <<Update("privateKey", newPrivateKey), Update("publicKey", newPublicKey)>>

\* the updates the call queues
setKeys(newPrivateKey, newPublicKey) ==
    IF ~isValidKey(newPrivateKey) \/ ~isValidKey(newPublicKey)
    THEN <<>>
    ELSE <<Update("privateKey", newPrivateKey), Update("publicKey", newPublicKey)>>

clearKeys_KeepsPublicKey ==
    <<Update("privateKey", Null), Update("userId", Null)>>

clearKeys ==
    <<Update("privateKey", Null), Update("publicKey", Null), Update("userId", Null)>>

setUserId(id) == <<Update("userId", id)>>

RECURSIVE ApplyUpdates(_, _)
ApplyUpdates(state, updates) ==
    IF updates = <<>> THEN state
    ELSE ApplyUpdates([state EXCEPT ![Head(updates).cell] = Head(updates).value],
                      Tail(updates))

hasKeys(state) == isValidKey(state.privateKey) /\ isValidKey(state.publicKey)

useRequireCrypto(state) ==
    IF ~hasKeys(state)
    THEN Throw("Encryption keys not loaded. User must be logged in.")
    ELSE Ok([privateKey |-> state.privateKey, publicKey |-> state.publicKey])

(***************************************************************************)
(* KeyService.getPublicKey and MessageService.ts over the table messages   *)
(***************************************************************************)
\* a string in a JavaScript condition: null, undefined and '' are falsy
Truthy(v) == v # Null /\ v # T(<<>>)

getPublicKey(table, userId) ==
    IF table[userId] = NoRow THEN Null ELSE table[userId].public_key

\* supabase.from('messages').insert({...}).select().single()
insertMessage(table, senderId, receiverId, contentToStore, listingId) ==
    [id |-> Len(table) + 1, sender_id |-> senderId, receiver_id |-> receiverId,
     content |-> contentToStore, is_read |-> FALSE,
     listing_id |-> IF Truthy(listingId) THEN listingId ELSE Null]

sendMessage_StoresContent(keys, table, senderId, receiverId, content, encryptionEnabled, seed, listingId) ==
    LET receiverPublicKey == getPublicKey(keys, receiverId)
        contentToStore ==
            IF encryptionEnabled /\ Truthy(receiverPublicKey)
            THEN encryptMessage(content, receiverPublicKey, seed)
            ELSE Ok(content)
        data == insertMessage(table, senderId, receiverId, content, listingId)
    IN  IF ~IsOk(contentToStore)
        THEN [table |-> table, ret |-> Null]
        ELSE [table |-> Append(table, data), ret |-> [data EXCEPT !.content = content]]

sendMessage_FallsBackOnFailure(keys, table, senderId, receiverId, content, encryptionEnabled, seed, listingId) ==
    LET receiverPublicKey == getPublicKey(keys, receiverId)
        contentToStore ==
            IF encryptionEnabled /\ Truthy(receiverPublicKey)
            THEN encryptMessage(content, receiverPublicKey, seed)
            ELSE Ok(content)
        data == insertMessage(table, senderId, receiverId,
                              IF IsOk(contentToStore) THEN contentToStore.v ELSE content,
                              listingId)
    IN  [table |-> Append(table, data), ret |-> [data EXCEPT !.content = content]]

\* the table after the call and the value returned; seed: the OAEP randomness
sendMessage(keys, table, senderId, receiverId, content, encryptionEnabled, seed, listingId) ==
    LET receiverPublicKey == getPublicKey(keys, receiverId)
        contentToStore ==
            IF encryptionEnabled /\ Truthy(receiverPublicKey)
            THEN encryptMessage(content, receiverPublicKey, seed)
            ELSE Ok(content)
        data == insertMessage(table, senderId, receiverId, contentToStore.v, listingId)
    IN  IF ~IsOk(contentToStore)
        THEN [table |-> table, ret |-> Null]
        ELSE [table |-> Append(table, data), ret |-> [data EXCEPT !.content = content]]

getMessages_DecryptsEveryMessage(data, userId, privateKey) ==
    IF Truthy(privateKey) /\ Len(data) > 0
    THEN [i \in 1..Len(data) |->
            LET msg == data[i]
                decryptedContent == decryptMessage(msg.content, privateKey)
            IN  IF IsOk(decryptedContent)
                THEN [msg EXCEPT !.content = decryptedContent.v]
                ELSE msg]
    ELSE data

\* data: the rows the conversation query returned
getMessages(data, userId, privateKey) ==
    IF Truthy(privateKey) /\ Len(data) > 0
    THEN [i \in 1..Len(data) |->
            LET msg == data[i]
                decryptedContent == decryptMessage(msg.content, privateKey)
            IN  IF msg.receiver_id = userId
                THEN IF IsOk(decryptedContent)
                     THEN [msg EXCEPT !.content = decryptedContent.v]
                     ELSE msg                       \* catch: return msg
                ELSE msg]
    ELSE data

onPostgresChange_NoFilter(eventType, new, userId, privateKey) ==
    LET decryptedContent == decryptMessage(new.content, privateKey)
    IN  IF eventType \in {"INSERT", "UPDATE"}
        THEN IF Truthy(privateKey) /\ new.receiver_id = userId
             THEN [onMessage |-> <<[new EXCEPT !.content = decryptedContent.v]>>,
                   onError |-> <<>>]
             ELSE [onMessage |-> <<new>>, onError |-> <<>>]
        ELSE [onMessage |-> <<>>, onError |-> <<>>]

\* the postgres_changes callback of subscribeToMessages: the onMessage and
\* onError calls it makes for one event
onPostgresChange(eventType, new, userId, privateKey) ==
    LET decryptedContent == decryptMessage(new.content, privateKey)
        toUser == new.sender_id = userId \/ new.receiver_id = userId
    IN  IF eventType \in {"INSERT", "UPDATE"} /\ toUser
        THEN IF Truthy(privateKey) /\ new.receiver_id = userId
             THEN IF IsOk(decryptedContent)
                  THEN [onMessage |-> <<[new EXCEPT !.content = decryptedContent.v]>>,
                        onError |-> <<>>]
                  ELSE [onMessage |-> <<new>>, onError |-> <<>>]
             ELSE [onMessage |-> <<new>>, onError |-> <<>>]
        ELSE [onMessage |-> <<>>, onError |-> <<>>]

\* the callback reaches an await before it calls onMessage
AwaitsDecrypt(eventType, new, userId, privateKey) ==
    /\ eventType \in {"INSERT", "UPDATE"}
    /\ new.sender_id = userId \/ new.receiver_id = userId
    /\ Truthy(privateKey) /\ new.receiver_id = userId

(***************************************************************************)
(* MessageService.getConversations                                         *)
(***************************************************************************)
\* btoa output for n bytes
Base64Length(n) == 4 * ((n + 2) \div 3)

\* content.length.  An RSA-OAEP ciphertext has the size of the modulus; the
\* other transport strings (keys) are longer.
StringLength(content) ==
    IF content.kind = "text" THEN Len(content.cu)
    ELSE Base64Length(modulusLength \div 8)

\* /^[A-Za-z0-9+/=]+$/.test(content)
base64Regex(content) ==
    IF content.kind = "text"
    THEN /\ content.cu # <<>>
         /\ \A i \in 1..Len(content.cu) :
               IsBase64Char(content.cu[i]) \/ content.cu[i] = cuEq
    ELSE content.kind = "b64"

looksEncrypted_ShortToo(content) ==
    IF ~Truthy(content) THEN FALSE
    ELSE base64Regex(content)

looksEncrypted(content) ==
    IF ~Truthy(content) \/ StringLength(content) < 50 THEN FALSE
    ELSE base64Regex(content) /\ StringLength(content) > 100

\* the preview text: 🔒 Encrypted message
EncryptedIndicator ==
    T(<<55357, 56594, 32, 69, 110, 99, 114, 121, 112, 116, 101, 100, 32, 109, 101, 115, 115, 97, 103, 101>>)

\* "general"
General == T(<<103, 101, 110, 101, 114, 97, 108>>)

lastMessage_ShowsContent(message, userId, privateKey) ==
    LET decrypted == decryptMessage(message.content, privateKey)
    IN  IF Truthy(privateKey) /\ message.receiver_id = userId
        THEN IF IsOk(decrypted) THEN decrypted.v ELSE EncryptedIndicator
        ELSE message.content

\* lines 192-204: the preview text of one message
lastMessage(message, userId, privateKey) ==
    LET decrypted == decryptMessage(message.content, privateKey)
    IN  IF Truthy(privateKey) /\ message.receiver_id = userId
        THEN IF IsOk(decrypted) THEN decrypted.v ELSE EncryptedIndicator
        ELSE IF looksEncrypted(message.content) THEN EncryptedIndicator
        ELSE message.content

partnerIdOf(message, userId) ==
    IF message.sender_id = userId THEN message.receiver_id ELSE message.sender_id

\* message.listing_id || "general"
listingIdOf(message) ==
    IF message.listing_id = Null THEN General ELSE message.listing_id

\* `${partnerId}:${listingId}` (ids are UUIDs, they hold no colon)
keyOf(partnerId, listingId) == <<partnerId, listingId>>

IsUnreadFor(message, userId) == message.receiver_id = userId /\ ~message.is_read

conversationMap_NoGrouping(filteredMessages, n, userId, privateKey) ==
    [i \in 1..n |->
        [user_id |-> partnerIdOf(filteredMessages[i], userId),
         listing_id |-> listingIdOf(filteredMessages[i]),
         last_message |-> lastMessage(filteredMessages[i], userId, privateKey),
         unread_count |-> IF IsUnreadFor(filteredMessages[i], userId) THEN 1 ELSE 0]]

\* the Map after the loop has run over the first n messages, as the sequence
\* of its values in insertion order
RECURSIVE conversationMap(_, _, _, _)
conversationMap(filteredMessages, n, userId, privateKey) ==
    IF n = 0 THEN <<>>
    ELSE LET map == conversationMap(filteredMessages, n - 1, userId, privateKey)
             message == filteredMessages[n]
             partnerId == partnerIdOf(message, userId)
             listingId == listingIdOf(message)
             key == keyOf(partnerId, listingId)
             has == \E i \in 1..Len(map) : keyOf(map[i].user_id, map[i].listing_id) = key
         IN  IF ~has
             THEN Append(map,
                    [user_id |-> partnerId,
                     listing_id |-> listingId,
                     last_message |-> lastMessage(message, userId, privateKey),
                     unread_count |-> IF IsUnreadFor(message, userId) THEN 1 ELSE 0])
             ELSE [i \in 1..Len(map) |->
                    IF keyOf(map[i].user_id, map[i].listing_id) = key
                       /\ IsUnreadFor(message, userId)
                    THEN [map[i] EXCEPT !.unread_count = @ + 1]
                    ELSE map[i]]

\* messagesData: the rows the conversation query returned
getConversations(messagesData, userId, privateKey) ==
    LET filteredMessages ==
            SelectSeq(messagesData,
                      LAMBDA msg : msg.sender_id = userId \/ msg.receiver_id = userId)
    IN  conversationMap(filteredMessages, Len(filteredMessages), userId, privateKey)

(***************************************************************************)
(* messages/page.tsx: the message list of the open conversation            *)
(***************************************************************************)
\* `temp-${Date.now()}`: an id that no row of the table has
tempId(n) == 0 - n

optimisticMessage(n, userId, partnerId, content) ==
    [id |-> tempId(n), sender_id |-> userId, receiver_id |-> partnerId,
     content |-> content, is_read |-> FALSE, listing_id |-> Null]

\* setMessages(prev => prev.map(msg => msg.id === tempId ? sentMessage : msg)),
\* or, after a failed send, prev.filter(msg => msg.id !== tempId)
replaceOptimistic(prev, n, sentMessage) ==
    IF sentMessage # Null
    THEN [i \in 1..Len(prev) |-> IF prev[i].id = tempId(n) THEN sentMessage ELSE prev[i]]
    ELSE SelectSeq(prev, LAMBDA msg : msg.id # tempId(n))

\* the onMessage callback of the page with the conversation
\* partnerId:general selected
onMessage(prev, message, userId, partnerId) ==
    IF /\ \/ (message.sender_id = userId /\ message.receiver_id = partnerId)
          \/ (message.sender_id = partnerId /\ message.receiver_id = userId)
       /\ listingIdOf(message) = General
    THEN IF \E i \in 1..Len(prev) : prev[i].id = message.id
         THEN prev
         ELSE Append(prev, message)
    ELSE prev

(***************************************************************************)
(* Inputs of the pure-function runs                                        *)
(***************************************************************************)
SeqsUpTo(A, n) == UNION {[1..m -> A] : m \in 0..n}

\* 'h', U+FEFF, a high surrogate (0xD83D), a low surrogate (0xDE00)
TextAlphabet == {104, cuBOM, 55357, 56832}

AtLimit == [i \in 1..MaxPayload |-> 104]
OverLimit == [i \in 1..(MaxPayload + 1) |-> 104]

MessageTexts ==
    {T(s) : s \in SeqsUpTo(TextAlphabet, MaxLen)}
        \cup {UnableToDecrypt, T(AtLimit), T(OverLimit)}

KeyIds == 1..MaxKeys
KeyPairs == {generateKeyPair(k) : k \in KeyIds}

\* strings that are no key: "", "!" (not base64), "hh" (base64, not a key)
NotAKey == {T(<<>>), T(<<33>>), T(<<104, 104>>)}

PublicKeyInputs ==
    {kp.publicKey : kp \in KeyPairs} \cup {generateKeyPair(1).privateKey} \cup NotAKey
PrivateKeyInputs ==
    {kp.privateKey : kp \in KeyPairs} \cup {generateKeyPair(1).publicKey} \cup NotAKey

IsPairOf(pub, priv) == \E kp \in KeyPairs : kp.publicKey = pub /\ kp.privateKey = priv
IsGeneratedPublic(pub) == \E kp \in KeyPairs : kp.publicKey = pub
IsGeneratedPrivate(priv) == \E kp \in KeyPairs : kp.privateKey = priv

(***************************************************************************)
(* Message cipher run: a plaintext and two key strings are chosen, the     *)
(* plaintext is encrypted (or stored as it is, as before E2EE), the stored *)
(* content may get corrupted, and it is decrypted.                         *)
(***************************************************************************)
Users == 1..MaxUsers
EmptyTable == [u \in Users |-> NoRow]

CipherIdle ==
    [pc |-> "idle", plaintext |-> Null, pub |-> Null, priv |-> Null,
     origin |-> "none", stored |-> Null, out |-> Ok(Null), log |-> <<>>]

VaultIdle ==
    [pc |-> "idle", via |-> "none", privateKey |-> Null, w1 |-> Null, w2 |-> Null,
     damage |-> "none", blob |-> Null, out |-> Ok(Null)]

NoUser == [kind |-> "nouser"]

FlowIdle == [pc |-> "idle", user |-> NoUser, ret |-> Null]

\* the provider as mounted, before any call
CacheIdle ==
    /\ crypto = EmptyCrypto
    /\ pending = <<>>
    /\ mounted = TRUE
    /\ lastOp = [op |-> "mount"]
    /\ lastKeysCall = [op |-> "mount"]

AuthIdle ==
    /\ accounts = {}
    /\ authUser = NoUser
    /\ flow = FlowIdle

InboxIdle == [op |-> "none"]

\* the messages page before a user is loaded
PageIdle == [pc |-> "idle"]

MessagesIdle ==
    /\ messages = <<>>
    /\ inbox = InboxIdle
    /\ page = PageIdle

Clients == 1..MaxClients
CallIdle == [pc |-> "idle"]

CallsIdle == calls = [c \in Clients |-> CallIdle]

InitCipher ==
    /\ \E p \in MessageTexts, pub \in PublicKeyInputs, priv \in PrivateKeyInputs :
         cipher = [CipherIdle EXCEPT !.pc = "ready", !.plaintext = p,
                                     !.pub = pub, !.priv = priv]
    /\ vault = VaultIdle
    /\ user_keys = EmptyTable
    /\ MessagesIdle
    /\ CallsIdle
    /\ CacheIdle
    /\ AuthIdle

\* handleEncrypt / simulateSendMessage
CipherEncrypt ==
    /\ cipher.pc = "ready"
    /\ \E seed \in 1..MaxSeed :
         LET r == encryptMessage(cipher.plaintext, cipher.pub, seed) IN
         cipher' = IF IsOk(r)
                   THEN [cipher EXCEPT !.pc = "stored", !.origin = "cipher",
                                       !.stored = r.v]
                   ELSE [cipher EXCEPT !.pc = "failed", !.out = r]
    /\ UNCHANGED <<vault, msgVars, calls, user_keys, cacheVars, authVars>>

\* a message row written before encryption existed
CipherLegacy ==
    /\ cipher.pc = "ready"
    /\ cipher' = [cipher EXCEPT !.pc = "stored", !.origin = "legacy",
                                !.stored = cipher.plaintext]
    /\ UNCHANGED <<vault, msgVars, calls, user_keys, cacheVars, authVars>>

\* the stored ciphertext is damaged: its bytes are no longer an OAEP block
CipherCorrupt ==
    /\ cipher.pc = "stored"
    /\ cipher.origin = "cipher"
    /\ cipher' = [cipher EXCEPT !.origin = "corrupt",
                     !.stored = B64([kind |-> "raw", of |-> cipher.stored])]
    /\ UNCHANGED <<vault, msgVars, calls, user_keys, cacheVars, authVars>>

\* handleDecrypt / simulateReceiveMessage / testWrongKey
CipherDecrypt ==
    /\ cipher.pc = "stored"
    /\ cipher' = [cipher EXCEPT !.pc = "done",
                                !.out = decryptMessage(cipher.stored, cipher.priv)]
    /\ UNCHANGED <<vault, msgVars, calls, user_keys, cacheVars, authVars>>

\* testWrongKey: the message encrypted for user 2 is decrypted with the
\* private key of user 1; log: the addLog calls
TestWrongKey ==
    /\ cipher.pc = "stored"
    /\ cipher.origin = "cipher"
    /\ IsGeneratedPrivate(cipher.priv)
    /\ ~IsPairOf(cipher.pub, cipher.priv)
    /\ LET r == decryptMessage(cipher.stored, cipher.priv)
       IN  cipher' = [cipher EXCEPT
               !.pc = "done",
               !.out = r,
               !.log = <<"Attempting to decrypt with User 1's key (should fail)...">>
                       \o IF IsOk(r)
                          THEN <<"ERROR: Should not have decrypted!">>
                          ELSE <<"CORRECT: Cannot decrypt with wrong key!",
                                 "Message is secure - only User 2 can read it">>]
    /\ UNCHANGED <<vault, msgVars, calls, user_keys, cacheVars, authVars>>

CipherNext ==
    CipherEncrypt \/ CipherLegacy \/ CipherCorrupt \/ CipherDecrypt \/ TestWrongKey

SpecCipher == InitCipher /\ [][CipherNext]_vars

(***************************************************************************)
(* Private key vault run: a private key is protected under password w1,    *)
(* directly or at signup through KeyService; the blob may get damaged; it  *)
(* is opened under password w2, directly or at login through KeyService.   *)
(***************************************************************************)
Passwords == {T(s) : s \in SeqsUpTo(TextAlphabet, MaxLen)}

VaultUser == 1

\* private key strings: generated ones and a short Base64 text
VaultKeyInputs == {kp.privateKey : kp \in KeyPairs} \cup {T(<<104, 104>>)}

InitVault ==
    /\ \E via \in {"direct", "service"}, w1 \in Passwords, w2 \in Passwords :
         vault = [VaultIdle EXCEPT !.pc = "ready", !.via = via, !.w1 = w1, !.w2 = w2]
    /\ cipher = CipherIdle
    /\ user_keys = EmptyTable
    /\ MessagesIdle
    /\ CallsIdle
    /\ CacheIdle
    /\ AuthIdle

\* encryptPrivateKey(PK, w1) on a generated private key
VaultProtect ==
    /\ vault.pc = "ready"
    /\ vault.via = "direct"
    /\ \E pk \in VaultKeyInputs, salt \in 1..MaxSeed, iv \in 1..MaxSeed :
         LET r == encryptPrivateKey(pk, vault.w1, salt, iv)
         IN  vault' = [vault EXCEPT !.pc = "protected", !.privateKey = pk,
                                    !.blob = r.v]
    /\ UNCHANGED <<cipher, msgVars, calls, user_keys, cacheVars, authVars>>

\* signup: generateAndStoreUserKeys(u, w1)
VaultSignup ==
    /\ vault.pc = "ready"
    /\ vault.via = "service"
    /\ \E k \in KeyIds, salt \in 1..MaxSeed, iv \in 1..MaxSeed :
         LET r == generateAndStoreUserKeys(user_keys, VaultUser, vault.w1, k, salt, iv)
         IN  /\ user_keys' = r.table
             /\ vault' = [vault EXCEPT !.pc = "protected",
                                       !.privateKey = generateKeyPair(k).privateKey,
                                       !.blob = r.ret.encryptedPrivateKey]
    /\ UNCHANGED <<cipher, msgVars, calls, cacheVars, authVars>>

\* the blob as changed by a fault of the store or the transport
Damaged(blob, how) ==
    IF how = "salt" THEN [blob EXCEPT !.salt = @ + 1]
    ELSE IF how = "iv" THEN [blob EXCEPT !.iv = @ + 1]
    ELSE IF how = "data" THEN [blob EXCEPT !.data = [kind |-> "raw", of |-> @]]
    ELSE T(<<33>>)

VaultDamage ==
    /\ vault.pc = "protected"
    /\ vault.damage = "none"
    /\ \E how \in {"salt", "iv", "data", "text"} :
         /\ vault' = [vault EXCEPT !.damage = how, !.blob = Damaged(vault.blob, how)]
         /\ user_keys' =
              IF vault.via = "service"
              THEN [user_keys EXCEPT ![VaultUser].encrypted_private_key =
                                         Damaged(vault.blob, how)]
              ELSE user_keys
    /\ UNCHANGED <<cipher, msgVars, calls, cacheVars, authVars>>

\* decryptPrivateKey(blob, w2)
VaultOpen ==
    /\ vault.pc = "protected"
    /\ vault.via = "direct"
    /\ vault' = [vault EXCEPT !.pc = "done",
                              !.out = decryptPrivateKey(vault.blob, vault.w2)]
    /\ UNCHANGED <<cipher, msgVars, calls, user_keys, cacheVars, authVars>>

\* login: getUserKeysDecrypted(u, w2)
VaultLogin ==
    /\ vault.pc = "protected"
    /\ vault.via = "service"
    /\ vault' = [vault EXCEPT !.pc = "done",
                    !.out = getUserKeysDecrypted(user_keys, VaultUser, vault.w2)]
    /\ UNCHANGED <<cipher, msgVars, calls, user_keys, cacheVars, authVars>>

VaultNext == VaultProtect \/ VaultSignup \/ VaultDamage \/ VaultOpen \/ VaultLogin

SpecVault == InitVault /\ [][VaultNext]_vars

(***************************************************************************)
(* Repeated protection run: encryptPrivateKey is called several times, on  *)
(* the same or on different private keys and passwords; each call draws    *)
(* its salt and its iv from the random source.                             *)
(***************************************************************************)
\* the values a 16-byte and a 12-byte draw can give
SaltRange == 1..(MaxCalls + 1)
IvRange == 1..(MaxCalls + 1)

ProtectInputs ==
    {kp.privateKey : kp \in KeyPairs} \X {T(<<104>>), T(<<104, 104>>)}

InitProtect ==
    /\ vault = [pc |-> "calls", salts |-> {}, ivs |-> {}, log |-> <<>>]
    /\ cipher = CipherIdle
    /\ user_keys = EmptyTable
    /\ MessagesIdle
    /\ CallsIdle
    /\ CacheIdle
    /\ AuthIdle

ProtectCall ==
    /\ Len(vault.log) < MaxCalls
    /\ \E in \in ProtectInputs,
          salt \in getRandomValues(SaltRange, vault.salts),
          iv \in getRandomValues(IvRange, vault.ivs) :
         vault' = [vault EXCEPT
                     !.salts = @ \cup {salt},
                     !.ivs = @ \cup {iv},
                     !.log = Append(@, [privateKey |-> in[1], password |-> in[2],
                                        ret |-> encryptPrivateKey(in[1], in[2], salt, iv)])]
    /\ UNCHANGED <<cipher, msgVars, calls, user_keys, cacheVars, authVars>>

\* decryptPrivateKey on the result of one of the calls, under its password
ProtectOpen ==
    /\ vault.log # <<>>
    /\ \E i \in 1..Len(vault.log) :
         /\ "out" \notin DOMAIN vault.log[i]
         /\ vault' = [vault EXCEPT !.log[i] =
                        @ @@ [out |-> decryptPrivateKey(@.ret.v, @.password)]]
    /\ UNCHANGED <<cipher, msgVars, calls, user_keys, cacheVars, authVars>>

ProtectNext == ProtectCall \/ ProtectOpen

SpecProtect == InitProtect /\ [][ProtectNext]_vars

(***************************************************************************)
(* Key check run: isValidKey is called, as by setKeys, on two values of    *)
(* any type.                                                               *)
(***************************************************************************)
Undefined == [kind |-> "undefined"]

\* the number 7, which is truthy and not a string
NotAString == [kind |-> "number", n |-> 7]

\* "", "!", "h", "hh", "hhhh", " ", "hh=="
KeyCheckTexts ==
    {T(<<>>), T(<<33>>), T(<<104>>), T(<<104, 104>>), T(<<104, 104, 104, 104>>),
     T(<<32>>), T(<<104, 104, cuEq, cuEq>>)}

KeyCheckInputs ==
    {Null, Undefined, NotAString} \cup KeyCheckTexts
        \cup {kp.privateKey : kp \in KeyPairs} \cup {kp.publicKey : kp \in KeyPairs}
        \cup {encryptPrivateKey(generateKeyPair(1).privateKey, T(<<104>>), 1, 1).v}

InitKeyCheck ==
    /\ CacheIdle
    /\ AuthIdle
    /\ cipher = CipherIdle
    /\ vault = VaultIdle
    /\ user_keys = EmptyTable
    /\ MessagesIdle
    /\ CallsIdle

\* the validation at the head of setKeys
KeyCheck ==
    /\ \E newPrivateKey \in KeyCheckInputs, newPublicKey \in KeyCheckInputs :
         lastOp' = [op |-> "isValidKey",
                    keys |-> <<newPrivateKey, newPublicKey>>,
                    ret |-> <<isValidKey(newPrivateKey), isValidKey(newPublicKey)>>]
    /\ UNCHANGED <<crypto, pending, mounted, lastKeysCall, cipher, vault, msgVars,
                   calls, user_keys, authVars>>

KeyCheckNext == KeyCheck

SpecKeyCheck == InitKeyCheck /\ [][KeyCheckNext]_vars

(***************************************************************************)
(* Session key cache run: consumers call setKeys, clearKeys and setUserId  *)
(* in any order and with any strings; React renders; the provider is       *)
(* unmounted and mounted again.                                            *)
(***************************************************************************)
CachePrivateKeyInputs == {kp.privateKey : kp \in KeyPairs} \cup {T(<<>>), T(<<33>>)}
CachePublicKeyInputs == {kp.publicKey : kp \in KeyPairs} \cup {T(<<>>), T(<<33>>)}

InitCache ==
    /\ CacheIdle
    /\ AuthIdle
    /\ cipher = CipherIdle
    /\ vault = VaultIdle
    /\ user_keys = EmptyTable
    /\ MessagesIdle
    /\ CallsIdle

CallSetKeys ==
    /\ mounted
    /\ Len(pending) + 2 <= MaxPending
    /\ \E newPrivateKey \in CachePrivateKeyInputs, newPublicKey \in CachePublicKeyInputs :
         /\ pending' = pending \o setKeys(newPrivateKey, newPublicKey)
         /\ lastOp' = [op |-> "setKeys", privateKey |-> newPrivateKey,
                       publicKey |-> newPublicKey]
         /\ lastKeysCall' =
              IF isValidKey(newPrivateKey) /\ isValidKey(newPublicKey)
              THEN [op |-> "setKeys", privateKey |-> newPrivateKey,
                    publicKey |-> newPublicKey]
              ELSE lastKeysCall
    /\ UNCHANGED <<crypto, mounted, cipher, vault, msgVars, calls, user_keys, authVars>>

CallClearKeys ==
    /\ mounted
    /\ Len(pending) + 3 <= MaxPending
    /\ pending' = pending \o clearKeys
    /\ lastOp' = [op |-> "clearKeys"]
    /\ lastKeysCall' = [op |-> "clearKeys"]
    /\ UNCHANGED <<crypto, mounted, cipher, vault, msgVars, calls, user_keys, authVars>>

CallSetUserId ==
    /\ mounted
    /\ Len(pending) + 1 <= MaxPending
    /\ \E id \in {Uid(u) : u \in Users} \cup {Null} :
         /\ pending' = pending \o setUserId(id)
         /\ lastOp' = [op |-> "setUserId", id |-> id]
    /\ UNCHANGED <<crypto, mounted, lastKeysCall, cipher, vault, msgVars, calls, user_keys, authVars>>

\* React renders the provider: every queued update is applied
Render ==
    /\ mounted
    /\ pending # <<>>
    /\ crypto' = ApplyUpdates(crypto, pending)
    /\ pending' = <<>>
    /\ lastOp' = [op |-> "render"]
    /\ UNCHANGED <<mounted, lastKeysCall, cipher, vault, msgVars, calls, user_keys, authVars>>

\* the tab is closed: the cleanup effect runs and the state cells are dropped
Unmount ==
    /\ mounted
    /\ mounted' = FALSE
    /\ crypto' = ApplyUpdates(crypto, pending \o clearKeys)
    /\ pending' = <<>>
    /\ lastOp' = [op |-> "unmount"]
    /\ lastKeysCall' = [op |-> "unmount"]
    /\ flow' = [FlowIdle EXCEPT !.ret = flow.ret]
    /\ UNCHANGED <<cipher, vault, msgVars, calls, user_keys, accounts, authUser>>

\* the application is opened again: useState(null) three times
Mount ==
    /\ ~mounted
    /\ mounted' = TRUE
    /\ crypto' = EmptyCrypto
    /\ pending' = <<>>
    /\ lastOp' = [op |-> "mount"]
    /\ lastKeysCall' = [op |-> "mount"]
    /\ UNCHANGED <<cipher, vault, msgVars, calls, user_keys, authVars>>

CacheNext ==
    CallSetKeys \/ CallClearKeys \/ CallSetUserId \/ Render \/ Unmount \/ Mount

SpecCache == InitCache /\ [][CacheNext]_vars

(***************************************************************************)
(* The application: one browser tab running the signup, login and logout   *)
(* handlers of the integration guide against Supabase auth, the table      *)
(* user_keys and the CryptoProvider.  Every await is a step boundary.      *)
(***************************************************************************)
\* the password the user types; Supabase auth has verified it
PasswordOf(u) == T(<<104, 48 + u>>)

\* the key generator never hands out a pair twice
FreshKeyIds(table) ==
    {k \in KeyIds : \A u \in Users :
        table[u] = NoRow \/ table[u].public_key # generateKeyPair(k).publicKey}

Init ==
    /\ CacheIdle
    /\ accounts \in SUBSET Users       \* users registered before the migration
    /\ authUser = NoUser
    /\ flow = FlowIdle
    /\ cipher = CipherIdle
    /\ vault = VaultIdle
    /\ user_keys = EmptyTable
    /\ MessagesIdle
    /\ CallsIdle

\* signup handler: await supabase.auth.signUp(...)
SignUp ==
    /\ mounted
    /\ flow.pc = "idle"
    /\ authUser = NoUser
    /\ \E u \in Users \ accounts :
         /\ accounts' = accounts \cup {u}
         /\ authUser' = Uid(u)
         /\ flow' = [flow EXCEPT !.pc = "signUpKeys", !.user = Uid(u)]
    /\ UNCHANGED <<cipher, vault, msgVars, calls, user_keys, cacheVars>>

\* signup handler: await generateAndStoreUserKeys(data.user.id, password)
SignUpKeys ==
    /\ flow.pc = "signUpKeys"
    /\ \E k \in FreshKeyIds(user_keys), salt \in 1..MaxSeed, iv \in 1..MaxSeed :
         LET r == generateAndStoreUserKeys(user_keys, flow.user.id,
                                           PasswordOf(flow.user.id), k, salt, iv)
         IN  /\ user_keys' = r.table
             /\ flow' = [flow EXCEPT !.pc = "idle", !.ret = r.ret]
    /\ UNCHANGED <<cipher, vault, msgVars, calls, cacheVars, accounts, authUser>>

\* login handler: await supabase.auth.signInWithPassword(...)
SignIn ==
    /\ mounted
    /\ flow.pc = "idle"
    /\ authUser = NoUser
    /\ \E u \in accounts :
         /\ authUser' = Uid(u)
         /\ flow' = [flow EXCEPT !.pc = "loadKeys", !.user = Uid(u)]
    /\ UNCHANGED <<cipher, vault, msgVars, calls, user_keys, cacheVars, accounts>>

\* what the login handler does with the keys it got
LoadIntoContext(keys) ==
    setKeys(keys.privateKey, keys.publicKey) \o setUserId(flow.user)

\* login handler, try block: getUserKeysDecrypted, setKeys, setUserId;
\* a null result makes keys.privateKey throw, which the catch block takes
LoadKeys ==
    /\ flow.pc = "loadKeys"
    /\ Len(pending) + 3 <= MaxPending
    /\ LET r == getUserKeysDecrypted(user_keys, flow.user.id, PasswordOf(flow.user.id))
       IN  IF IsOk(r) /\ r.v # Null
           THEN /\ pending' = pending \o LoadIntoContext(r.v)
                /\ flow' = [flow EXCEPT !.pc = "idle"]
           ELSE /\ pending' = pending
                /\ flow' = [flow EXCEPT !.pc = "ensure"]
    /\ UNCHANGED <<cipher, vault, msgVars, calls, user_keys, crypto, mounted, lastOp, lastKeysCall,
                   accounts, authUser>>

\* catch block, ensureUserHasKeys: const existingKeys = await getUserKeys(userId)
EnsureCheck ==
    /\ flow.pc = "ensure"
    /\ LET existingKeys == getUserKeys(user_keys, flow.user.id)
       IN  flow' = IF existingKeys # Null
                   THEN [flow EXCEPT !.pc = "reload", !.ret = existingKeys]
                   ELSE [flow EXCEPT !.pc = "generate"]
    /\ UNCHANGED <<cipher, vault, msgVars, calls, user_keys, cacheVars, accounts, authUser>>

\* ensureUserHasKeys: return await generateAndStoreUserKeys(userId, password)
EnsureGenerate ==
    /\ flow.pc = "generate"
    /\ \E k \in FreshKeyIds(user_keys), salt \in 1..MaxSeed, iv \in 1..MaxSeed :
         LET r == generateAndStoreUserKeys(user_keys, flow.user.id,
                                           PasswordOf(flow.user.id), k, salt, iv)
         IN  /\ user_keys' = r.table
             /\ flow' = [flow EXCEPT !.pc = IF r.ret # Null THEN "reload" ELSE "idle",
                                     !.ret = r.ret]
    /\ UNCHANGED <<cipher, vault, msgVars, calls, cacheVars, accounts, authUser>>

\* catch block after ensureUserHasKeys: getUserKeysDecrypted, setKeys, setUserId
Reload ==
    /\ flow.pc = "reload"
    /\ Len(pending) + 3 <= MaxPending
    /\ LET r == getUserKeysDecrypted(user_keys, flow.user.id, PasswordOf(flow.user.id))
       IN  pending' = IF IsOk(r) /\ r.v # Null
                      THEN pending \o LoadIntoContext(r.v)
                      ELSE pending
    /\ flow' = [flow EXCEPT !.pc = "idle"]
    /\ UNCHANGED <<cipher, vault, msgVars, calls, user_keys, crypto, mounted, lastOp, lastKeysCall,
                   accounts, authUser>>

\* logout handler: await supabase.auth.signOut()
SignOut ==
    /\ mounted
    /\ flow.pc = "idle"
    /\ authUser # NoUser
    /\ authUser' = NoUser
    /\ flow' = [flow EXCEPT !.pc = "clearKeys"]
    /\ UNCHANGED <<cipher, vault, msgVars, calls, user_keys, cacheVars, accounts>>

\* logout handler, after the await: clearKeys()
LogoutClearKeys ==
    /\ flow.pc = "clearKeys"
    /\ Len(pending) + 3 <= MaxPending
    /\ pending' = pending \o clearKeys
    /\ flow' = [flow EXCEPT !.pc = "idle"]
    /\ UNCHANGED <<cipher, vault, msgVars, calls, user_keys, crypto, mounted, lastOp, lastKeysCall,
                   accounts, authUser>>

Next ==
    \/ SignUp \/ SignUpKeys
    \/ SignIn \/ LoadKeys \/ EnsureCheck \/ EnsureGenerate \/ Reload
    \/ SignOut \/ LogoutClearKeys
    \/ Render \/ Unmount \/ Mount

Spec == Init /\ [][Next]_vars

(***************************************************************************)
(* Conversation run: users with and without key records send messages     *)
(* with and without encryption; the rows are fetched with getMessages and  *)
(* delivered to the subscription callback, under any private key or none.  *)
(***************************************************************************)
\* the record generateAndStoreUserKeys wrote for user u (pair u)
KeyRowOf(u) ==
    insertUserKeys(EmptyTable, u,
        [public_key |-> generateKeyPair(u).publicKey,
         encrypted_private_key |->
             encryptPrivateKey(generateKeyPair(u).privateKey, PasswordOf(u), 1, 1).v]
    ).table[u]

\* a record whose public_key no longer imports
BrokenKeyRowOf(u) == [KeyRowOf(u) EXCEPT !.public_key = T(<<104, 104>>)]

SendTexts == {T(<<104>>), UnableToDecrypt, T(OverLimit)}

\* privateKey argument: absent, empty, a user's key
PrivateKeyArgs ==
    {Null, T(<<>>)} \cup {generateKeyPair(u).privateKey : u \in Users}

\* no row has been read yet
Sending == inbox.op \in {"none", "sendMessage"}

InitMessages ==
    /\ user_keys \in [Users -> {NoRow} \cup {KeyRowOf(u) : u \in Users}
                                       \cup {BrokenKeyRowOf(u) : u \in Users}]
    /\ \A u \in Users : user_keys[u] \in {NoRow, KeyRowOf(u), BrokenKeyRowOf(u)}
    /\ MessagesIdle
    /\ CallsIdle
    /\ CacheIdle
    /\ AuthIdle
    /\ cipher = CipherIdle
    /\ vault = VaultIdle

MsgSend ==
    /\ Sending
    /\ Len(messages) < MaxMessages
    /\ \E senderId \in Users, receiverId \in Users, content \in SendTexts,
          encryptionEnabled \in BOOLEAN, seed \in 1..MaxSeed :
         LET r == sendMessage(user_keys, messages, senderId, receiverId, content,
                              encryptionEnabled, seed, Null)
         IN  /\ messages' = r.table
             /\ inbox' = [op |-> "sendMessage", receiverId |-> receiverId,
                          content |-> content, encryptionEnabled |-> encryptionEnabled,
                          seed |-> seed, ret |-> r.ret]
    /\ UNCHANGED <<page, cipher, vault, user_keys, calls, cacheVars, authVars>>

MsgGet ==
    /\ Sending
    /\ \E userId \in Users, privateKey \in PrivateKeyArgs :
         inbox' = [op |-> "getMessages", userId |-> userId, privateKey |-> privateKey,
                   ret |-> getMessages(messages, userId, privateKey)]
    /\ UNCHANGED <<messages, page, cipher, vault, user_keys, calls, cacheVars, authVars>>

MsgEvent ==
    /\ Sending
    /\ \E i \in 1..Len(messages), eventType \in {"INSERT", "UPDATE", "DELETE"},
          userId \in Users, privateKey \in PrivateKeyArgs :
         inbox' = [op |-> "event", eventType |-> eventType, userId |-> userId,
                   privateKey |-> privateKey, new |-> messages[i],
                   ret |-> onPostgresChange(eventType, messages[i], userId, privateKey)]
    /\ UNCHANGED <<messages, page, cipher, vault, user_keys, calls, cacheVars, authVars>>

MessagesNext == MsgSend \/ MsgGet \/ MsgEvent

SpecMessages == InitMessages /\ [][MessagesNext]_vars

(***************************************************************************)
(* Conversation list run: users who all have key records send messages     *)
(* about a listing or about none, with and without encryption; rows are    *)
(* marked as read; getConversations is called for any user, under any      *)
(* private key or none, on the rows in either order.                       *)
(***************************************************************************)
Lid(l) == [kind |-> "listing", id |-> l]

ListingArgs == {Null, Lid(1)}

\* "hi"; 100 and 101 base64 characters; 101 characters, the first a blank
PreviewTexts ==
    {T(<<104, 105>>),
     T([i \in 1..100 |-> 104]),
     T([i \in 1..101 |-> 104]),
     T([i \in 1..101 |-> IF i = 1 THEN 32 ELSE 104])}

Reverse(seq) == [i \in 1..Len(seq) |-> seq[Len(seq) + 1 - i]]

\* getConversations has not been called yet
Listing == inbox.op # "getConversations"

InitConversations ==
    /\ user_keys = [u \in Users |-> KeyRowOf(u)]
    /\ MessagesIdle
    /\ CallsIdle
    /\ CacheIdle
    /\ AuthIdle
    /\ cipher = CipherIdle
    /\ vault = VaultIdle

ConvSend ==
    /\ Listing
    /\ Len(messages) < MaxMessages
    /\ \E senderId \in Users, receiverId \in Users, content \in PreviewTexts,
          encryptionEnabled \in BOOLEAN, listingId \in ListingArgs :
         LET r == sendMessage(user_keys, messages, senderId, receiverId, content,
                              encryptionEnabled, 1, listingId)
         IN  /\ messages' = r.table
             /\ inbox' = [op |-> "sendMessage", receiverId |-> receiverId,
                          content |-> content, encryptionEnabled |-> encryptionEnabled,
                          seed |-> 1, ret |-> r.ret]
    /\ UNCHANGED <<page, cipher, vault, user_keys, calls, cacheVars, authVars>>

\* markMessagesAsRead([id]): the update sets is_read of the row
ConvMarkRead ==
    /\ Listing
    /\ \E i \in 1..Len(messages) :
         /\ ~messages[i].is_read
         /\ messages' = [messages EXCEPT ![i].is_read = TRUE]
         /\ inbox' = [op |-> "markMessagesAsRead", messageIds |-> {i}, ret |-> TRUE]
    /\ UNCHANGED <<page, cipher, vault, user_keys, calls, cacheVars, authVars>>

ConvList ==
    /\ Listing
    /\ \E userId \in Users, privateKey \in PrivateKeyArgs,
          messagesData \in {messages, Reverse(messages)} :
         inbox' = [op |-> "getConversations", userId |-> userId,
                   privateKey |-> privateKey, data |-> messagesData,
                   ret |-> getConversations(messagesData, userId, privateKey)]
    /\ UNCHANGED <<messages, page, cipher, vault, user_keys, calls, cacheVars, authVars>>

ConversationsNext == ConvSend \/ ConvMarkRead \/ ConvList

SpecConversations == InitConversations /\ [][ConversationsNext]_vars

(***************************************************************************)
(* Messages page run: user 1 has the page open on the general conversation *)
(* with a partner and is subscribed to the table, with the private key or  *)
(* without.  The user sends messages from the page; other sessions insert, *)
(* update and delete rows; the realtime channel carries one event per      *)
(* change, in order.  Every await is a step boundary: the insert of a send *)
(* happens at the server before its response reaches the page, and a       *)
(* callback that decrypts resumes when the Web Crypto promise settles.     *)
(***************************************************************************)
PageUser == 1

PageText == T(<<104>>)

\* a row that was deleted
Deleted == [kind |-> "deleted"]

Event(eventType, new) == [eventType |-> eventType, new |-> new]

InitPage ==
    /\ \E partnerId \in Users,
          privateKey \in {Null, generateKeyPair(PageUser).privateKey} :
         page = [pc |-> "open", partnerId |-> partnerId, privateKey |-> privateKey,
                 list |-> <<>>,       \* the messages shown
                 sends |-> {},        \* sendMessage handlers in progress
                 temps |-> 0,         \* optimistic entries made so far
                 channel |-> <<>>,    \* events on their way to the page
                 arrived |-> 0,       \* events the callback was called for
                 awaiting |-> {},     \* callbacks waiting for decryptMessage
                 log |-> <<>>]        \* the onMessage calls made
    /\ user_keys = [u \in Users |-> KeyRowOf(u)]
    /\ messages = <<>>
    /\ inbox = InboxIdle
    /\ CallsIdle
    /\ CacheIdle
    /\ AuthIdle
    /\ cipher = CipherIdle
    /\ vault = VaultIdle

\* sendMessage of the page up to the request: the optimistic entry is shown
PageSend ==
    /\ Len(messages) + Cardinality({h \in page.sends : h.pc = "sending"}) < MaxMessages
    /\ page' = [page EXCEPT
                  !.temps = @ + 1,
                  !.list = Append(@, optimisticMessage(page.temps + 1, PageUser,
                                                       page.partnerId, PageText)),
                  !.sends = @ \cup {[n |-> page.temps + 1, pc |-> "sending",
                                     sentMessage |-> Null]}]
    /\ UNCHANGED <<messages, inbox, cipher, vault, user_keys, calls, cacheVars, authVars>>

\* MessageService.sendMessage at the server: the row is inserted and the
\* INSERT event goes out
PageInsert ==
    /\ \E h \in page.sends :
         /\ h.pc = "sending"
         /\ LET r == sendMessage(user_keys, messages, PageUser, page.partnerId,
                                 PageText, TRUE, 1, Null)
            IN  /\ messages' = r.table
                /\ page' = [page EXCEPT
                              !.sends = (@ \ {h}) \cup
                                        {[h EXCEPT !.pc = "sent", !.sentMessage = r.ret]},
                              !.channel = IF r.ret = Null THEN @
                                          ELSE Append(@, Event("INSERT",
                                                     r.table[Len(r.table)]))]
    /\ UNCHANGED <<inbox, cipher, vault, user_keys, calls, cacheVars, authVars>>

\* the response of sendMessage reaches the page
PageSent ==
    /\ \E h \in page.sends :
         /\ h.pc = "sent"
         /\ page' = [page EXCEPT
                       !.sends = @ \ {h},
                       !.list = replaceOptimistic(@, h.n, h.sentMessage)]
    /\ UNCHANGED <<messages, inbox, cipher, vault, user_keys, calls, cacheVars, authVars>>

\* another session sends a message
OtherInsert ==
    /\ Len(messages) + Cardinality({h \in page.sends : h.pc = "sending"}) < MaxMessages
    /\ \E senderId \in Users, receiverId \in Users :
         LET r == sendMessage(user_keys, messages, senderId, receiverId,
                              PageText, TRUE, 1, Null)
         IN  /\ messages' = r.table
             /\ page' = [page EXCEPT
                           !.channel = Append(@, Event("INSERT", r.table[Len(r.table)]))]
    /\ UNCHANGED <<inbox, cipher, vault, user_keys, calls, cacheVars, authVars>>

\* markMessagesAsRead on a row
OtherUpdate ==
    /\ \E i \in 1..Len(messages) :
         /\ messages[i] # Deleted
         /\ ~messages[i].is_read
         /\ messages' = [messages EXCEPT ![i].is_read = TRUE]
         /\ page' = [page EXCEPT
                       !.channel = Append(@, Event("UPDATE",
                                                   [messages[i] EXCEPT !.is_read = TRUE]))]
    /\ UNCHANGED <<inbox, cipher, vault, user_keys, calls, cacheVars, authVars>>

\* deleteMessage on a row
OtherDelete ==
    /\ \E i \in 1..Len(messages) :
         /\ messages[i] # Deleted
         /\ messages' = [messages EXCEPT ![i] = Deleted]
         /\ page' = [page EXCEPT !.channel = Append(@, Event("DELETE", Null))]
    /\ UNCHANGED <<inbox, cipher, vault, user_keys, calls, cacheVars, authVars>>

\* the callback's onMessage calls for the event that arrived as number seq
Deliver(state, seq, e) ==
    LET made == onPostgresChange(e.eventType, e.new, PageUser, state.privateKey).onMessage
    IN  [state EXCEPT
           !.list = IF made = <<>> THEN @
                    ELSE onMessage(@, made[1], PageUser, state.partnerId),
           !.log = @ \o [i \in 1..Len(made) |->
                            [seq |-> seq, event |-> e, message |-> made[i]]]]

\* the next event arrives: the callback runs until it returns or awaits
EventArrives ==
    /\ page.channel # <<>>
    /\ LET e == Head(page.channel)
           seq == page.arrived + 1
           state == [page EXCEPT !.channel = Tail(@), !.arrived = seq]
       IN  page' = IF AwaitsDecrypt(e.eventType, e.new, PageUser, page.privateKey)
                   THEN [state EXCEPT !.awaiting = @ \cup {[seq |-> seq, event |-> e]}]
                   ELSE Deliver(state, seq, e)
    /\ UNCHANGED <<messages, inbox, cipher, vault, user_keys, calls, cacheVars, authVars>>

\* decryptMessage settles and the callback goes on
DecryptSettles ==
    /\ \E w \in page.awaiting :
         page' = Deliver([page EXCEPT !.awaiting = @ \ {w}], w.seq, w.event)
    /\ UNCHANGED <<messages, inbox, cipher, vault, user_keys, calls, cacheVars, authVars>>

PageNext ==
    \/ PageSend
    \/ PageInsert
    \/ PageSent
    \/ OtherInsert
    \/ OtherUpdate
    \/ OtherDelete
    \/ EventArrives
    \/ DecryptSettles

SpecPage == InitPage /\ [][PageNext]_vars

(***************************************************************************)
(* Key directory run: browser sessions, signed in or not, call KeyService  *)
(* at the same time.  A call takes one step per database request.          *)
(***************************************************************************)
Sessions == {NoUser} \cup {Uid(u) : u \in Users}

WrongPassword == T(<<104>>)

\* the guide passes data.user.id to the calls that write
KeyCalls(auth) ==
    {[op |-> op, userId |-> u,
      password |-> IF right THEN PasswordOf(u) ELSE WrongPassword] :
        op \in {"getUserKeys", "getUserKeysDecrypted"}, u \in Users,
        right \in BOOLEAN}
    \cup {[op |-> op, userId |-> u, password |-> PasswordOf(u)] :
        op \in {"generateAndStoreUserKeys", "ensureUserHasKeys"},
        u \in {v \in Users : auth = Uid(v)}}

InitKeys ==
    /\ user_keys \in {EmptyTable, [EmptyTable EXCEPT ![1] = KeyRowOf(1)]}
    /\ MessagesIdle
    /\ CallsIdle
    /\ CacheIdle
    /\ AuthIdle
    /\ cipher = CipherIdle
    /\ vault = VaultIdle

KeysCall(c) ==
    /\ calls[c].pc = "idle"
    /\ \E auth \in Sessions : \E call \in KeyCalls(auth) :
         calls' = [calls EXCEPT ![c] =
                      [pc |-> "called", auth |-> auth, op |-> call.op,
                       userId |-> call.userId, password |-> call.password]]
    /\ UNCHANGED <<user_keys, cipher, vault, msgVars, cacheVars, authVars>>

Returned(call, ret) == [call EXCEPT !.pc = "returned"] @@ [ret |-> ret]

\* getUserKeys(userId): one SELECT
KeysGetUserKeys(c) ==
    /\ calls[c].pc = "called"
    /\ calls[c].op = "getUserKeys"
    /\ calls' = [calls EXCEPT ![c] =
          Returned(@, Ok(getUserKeys(selectUserKeys(user_keys, @.auth), @.userId)))]
    /\ UNCHANGED <<user_keys, cipher, vault, msgVars, cacheVars, authVars>>

\* getUserKeysDecrypted(userId, password): one SELECT, then decryptPrivateKey
KeysGetUserKeysDecrypted(c) ==
    /\ calls[c].pc = "called"
    /\ calls[c].op = "getUserKeysDecrypted"
    /\ calls' = [calls EXCEPT ![c] =
          Returned(@, getUserKeysDecrypted(selectUserKeys(user_keys, @.auth),
                                           @.userId, @.password))]
    /\ UNCHANGED <<user_keys, cipher, vault, msgVars, cacheVars, authVars>>

\* ensureUserHasKeys(userId, password): const existingKeys = await getUserKeys(userId)
KeysEnsureCheck(c) ==
    /\ calls[c].pc = "called"
    /\ calls[c].op = "ensureUserHasKeys"
    /\ LET existingKeys == getUserKeys(selectUserKeys(user_keys, calls[c].auth),
                                       calls[c].userId)
       IN  calls' = [calls EXCEPT ![c] =
               IF existingKeys # Null
               THEN Returned(@, Ok(existingKeys))
               ELSE [@ EXCEPT !.pc = "generate"]]
    /\ UNCHANGED <<user_keys, cipher, vault, msgVars, cacheVars, authVars>>

\* generateAndStoreUserKeys(userId, password), called directly or as the last
\* step of ensureUserHasKeys: generate, encrypt, one INSERT
KeysGenerate(c) ==
    /\ \/ calls[c].pc = "called" /\ calls[c].op = "generateAndStoreUserKeys"
       \/ calls[c].pc = "generate"
    /\ \E k \in FreshKeyIds(user_keys), salt \in 1..MaxSeed, iv \in 1..MaxSeed :
         LET r == generateAndStoreUserKeys(user_keys, calls[c].userId,
                                           calls[c].password, k, salt, iv)
         IN  /\ user_keys' = r.table
             /\ calls' = [calls EXCEPT ![c] = Returned(@, Ok(r.ret))]
    /\ UNCHANGED <<cipher, vault, msgVars, cacheVars, authVars>>

KeysNext ==
    \E c \in Clients :
        \/ KeysCall(c)
        \/ KeysGetUserKeys(c)
        \/ KeysGetUserKeysDecrypted(c)
        \/ KeysEnsureCheck(c)
        \/ KeysGenerate(c)

SpecKeys == InitKeys /\ [][KeysNext]_vars

(***************************************************************************)
(* Properties of the message cipher (SpecCipher)                           *)
(***************************************************************************)
CipherDone == cipher.pc = "done"
Encrypted == cipher.origin = "cipher"

\* C1: for every plaintext P within the size limit and every generated key
\* pair K, decryptMessage(encryptMessage(P, K.public), K.private) returns
\* exactly P.
C1_RoundTrip ==
    (CipherDone /\ Encrypted /\ IsPairOf(cipher.pub, cipher.priv))
        => cipher.out = Ok(cipher.plaintext)

Logged(line) == \E i \in DOMAIN cipher.log : cipher.log[i] = line

TestWrongKeyRan == CipherDone /\ cipher.log # <<>>

VaultDone == vault.pc = "done"

\* C5: a private key protected under password W and opened under the same W
\* comes back exactly: decryptPrivateKey(encryptPrivateKey(PK, W), W) = PK,
\* and the keys stored by generateAndStoreUserKeys(u, W) are returned by
\* getUserKeysDecrypted(u, W) with the private key generated at signup.
C5_VaultRoundTrip ==
    (VaultDone /\ vault.damage = "none" /\ vault.w1 = vault.w2) =>
        /\ vault.via = "direct" => vault.out = Ok(vault.privateKey)
        /\ vault.via = "service" =>
             vault.out = Ok([kind |-> "DecryptedUserKeys", userId |-> VaultUser,
                             publicKey |-> user_keys[VaultUser].public_key,
                             privateKey |-> vault.privateKey])

C5_Witness ==
    /\ VaultDone
    /\ vault.via = "service"
    /\ vault.damage = "none"
    /\ vault.w1 = vault.w2
    /\ IsOk(vault.out)
    /\ IsGeneratedPrivate(vault.out.v.privateKey)
    /\ IsPairOf(vault.out.v.publicKey, vault.out.v.privateKey)

\* C6: a blob protected under password W1 and opened under a different
\* password W2 fails with 'Invalid password or corrupted key'; a damaged blob
\* fails with the same error.
C6_WrongPasswordFails ==
    (VaultDone /\ vault.via = "direct"
               /\ (vault.w1 # vault.w2 \/ vault.damage # "none"))
        => vault.out = Throw("Invalid password or corrupted key")

(***************************************************************************)
(* Properties of the session key cache (SpecCache)                         *)
(***************************************************************************)
Loaded(state) == state.privateKey # Null /\ state.publicKey # Null

\* C7: what a consumer of the context reads is never half-loaded: privateKey
\* and publicKey are both null or both set, through every order of setKeys,
\* clearKeys, setUserId, renders, unmount and mount.
C7_NeverHalfLoaded ==
    (crypto.privateKey = Null) <=> (crypto.publicKey = Null)

C7_Witness ==
    /\ Loaded(crypto)
    /\ lastOp.op = "clearKeys"
    /\ pending # <<>>

\* C8 (as stated): after setKeys(priv, pub) with two well-formed keys
\* hasKeys() is true and the accessors return priv and pub; after clearKeys()
\* hasKeys() is false, the accessors return null and useRequireCrypto throws.
C8_AfterTheCall ==
    mounted =>
        /\ lastKeysCall.op = "setKeys" =>
             /\ hasKeys(crypto)
             /\ crypto.privateKey = lastKeysCall.privateKey
             /\ crypto.publicKey = lastKeysCall.publicKey
        /\ lastKeysCall.op = "clearKeys" =>
             /\ ~hasKeys(crypto)
             /\ crypto.privateKey = Null
             /\ crypto.publicKey = Null
             /\ ~IsOk(useRequireCrypto(crypto))

\* C8 (amended): once the provider has rendered after setKeys(priv, pub) with
\* two well-formed keys, hasKeys() is true, the accessors return priv and pub
\* and useRequireCrypto returns them; once it has rendered after clearKeys(),
\* hasKeys() is false, the accessors return null and useRequireCrypto throws
\* 'Encryption keys not loaded. User must be logged in.'
C8_AfterTheRender ==
    (mounted /\ pending = <<>>) =>
        /\ lastKeysCall.op = "setKeys" =>
             /\ hasKeys(crypto)
             /\ crypto.privateKey = lastKeysCall.privateKey
             /\ crypto.publicKey = lastKeysCall.publicKey
             /\ useRequireCrypto(crypto) =
                    Ok([privateKey |-> lastKeysCall.privateKey,
                        publicKey |-> lastKeysCall.publicKey])
        /\ lastKeysCall.op = "clearKeys" =>
             /\ ~hasKeys(crypto)
             /\ crypto.privateKey = Null
             /\ crypto.publicKey = Null
             /\ useRequireCrypto(crypto) =
                    Throw("Encryption keys not loaded. User must be logged in.")

C8_Witness ==
    /\ mounted
    /\ pending = <<>>
    /\ lastKeysCall.op = "setKeys"
    /\ lastOp.op = "render"
    /\ hasKeys(crypto)

\* C9: a setKeys call in which the private or the public key is not well
\* formed changes nothing: privateKey, publicKey and userId stay as they
\* were and no update is queued, whether the cache is empty or loaded.
C9_InvalidSetKeysChangesNothing ==
    [][(/\ lastOp'.op = "setKeys"
        /\ (~isValidKey(lastOp'.privateKey) \/ ~isValidKey(lastOp'.publicKey)))
          => (crypto' = crypto /\ pending' = pending)]_vars

C9_Witness ==
    /\ lastOp.op = "setKeys"
    /\ isValidKey(lastOp.privateKey)
    /\ ~isValidKey(lastOp.publicKey)
    /\ Loaded(crypto)
    /\ crypto.userId # Null

\* C28: what a consumer of the context reads never has a userId without
\* both keys, through every order of setKeys, setUserId and clearKeys.
C28_NoIdentityWithoutKeys ==
    crypto.userId # Null => Loaded(crypto)

(***************************************************************************)
(* Properties of the application (Spec)                                    *)
(***************************************************************************)
RawPrivateKeys == {kp.privateKey : kp \in KeyPairs}

\* the blob opens under the user's password and under nothing else
IsProtectedFor(blob, u) ==
    /\ blob.kind = "json"
    /\ blob.data.kind = "gcm"
    /\ blob.data.key = deriveKey(TextEncode(PasswordOf(u)), blob.salt, iterations)

\* C4: the table user_keys never holds a raw private key: a row holds the
\* public key and the blob protected under the user's password; the value
\* generateAndStoreUserKeys returns holds no raw private key either; the raw
\* private key is found only in the CryptoProvider's state.
C4_NoRawPrivateKeyStored ==
    /\ \A u \in Users : user_keys[u] # NoRow =>
         /\ IsGeneratedPublic(user_keys[u].public_key)
         /\ user_keys[u].encrypted_private_key \notin RawPrivateKeys
         /\ IsProtectedFor(user_keys[u].encrypted_private_key, u)
    /\ flow.ret # Null =>
         /\ flow.ret.publicKey \notin RawPrivateKeys
         /\ flow.ret.encryptedPrivateKey \notin RawPrivateKeys
         /\ IsProtectedFor(flow.ret.encryptedPrivateKey, flow.ret.userId)

C4_Witness ==
    /\ flow.ret # Null
    /\ user_keys[flow.ret.userId] # NoRow
    /\ crypto.privateKey \in RawPrivateKeys
    /\ IsPairOf(user_keys[flow.ret.userId].public_key, crypto.privateKey)

\* C10: no state has keys in the cache while no user is authenticated: after
\* logout and after the provider is unmounted the cache is empty.
C10_NoKeysWithoutUser ==
    authUser = NoUser => (crypto.privateKey = Null /\ crypto.publicKey = Null)

(***************************************************************************)
(* Properties of MessageService (SpecMessages)                             *)
(***************************************************************************)
Sent == inbox.op = "sendMessage"
Fetched == inbox.op = "getMessages"
Delivered == inbox.op = "event" /\ inbox.eventType \in {"INSERT", "UPDATE"}

LastRow == messages[Len(messages)]

HasStoredPublicKey(u) == user_keys[u] # NoRow

\* the content is a ciphertext that the private key opens
Decryptable(content, privateKey) ==
    /\ content.kind = "b64"
    /\ content.buf.kind = "rsa"
    /\ privateKey = generateKeyPair(content.buf.k).privateKey

\* the message is one the call tries to decrypt
Incoming(msg) == Truthy(inbox.privateKey) /\ msg.receiver_id = inbox.userId

EncryptionFailed(call, keys) ==
    /\ call.op = "sendMessage"
    /\ call.encryptionEnabled
    /\ Truthy(getPublicKey(keys, call.receiverId))
    /\ encryptMessage(call.content, getPublicKey(keys, call.receiverId), call.seed)
           = Throw("Failed to encrypt message")

\* C12: when encryptMessage fails (plaintext over the size limit, public key
\* that does not import) it raises, and sendMessage inserts no row, neither
\* the plaintext nor a shortened ciphertext, and returns null.
C12_FailedEncryptionAbortsSend ==
    [][EncryptionFailed(inbox', user_keys)
          => (messages' = messages /\ inbox'.ret = Null)]_vars

C12_Witness ==
    /\ EncryptionFailed(inbox, user_keys)
    /\ inbox.content = T(OverLimit)
    /\ user_keys[inbox.receiverId] = KeyRowOf(inbox.receiverId)
    /\ inbox.ret = Null
    /\ Len(messages) = 1

\* C13: getMessages and the subscription callback apply decryptMessage to a
\* message only if the user is its receiver and a private key was given;
\* a message the user sent to someone else, and every message when no key is
\* given, comes back as stored.
C13_DecryptsOnlyReceived ==
    /\ Fetched =>
         /\ Len(inbox.ret) = Len(messages)
         /\ \A i \in 1..Len(messages) :
              inbox.ret[i] =
                  IF Incoming(messages[i])
                  THEN [messages[i] EXCEPT
                           !.content = decryptMessage(@, inbox.privateKey).v]
                  ELSE messages[i]
    /\ Delivered =>
         /\ inbox.ret.onError = <<>>
         /\ inbox.ret.onMessage =
              IF inbox.userId \notin {inbox.new.sender_id, inbox.new.receiver_id}
              THEN <<>>
              ELSE IF Incoming(inbox.new)
              THEN <<[inbox.new EXCEPT
                         !.content = decryptMessage(@, inbox.privateKey).v]>>
              ELSE <<inbox.new>>

C13_Witness ==
    /\ Fetched
    /\ Len(messages) = 2
    /\ Incoming(messages[1])
    /\ inbox.ret[1].content # messages[1].content
    /\ messages[2].receiver_id # inbox.userId
    /\ messages[2].content.kind = "b64"
    /\ inbox.ret[2] = messages[2]

HasReturned(call) == call.pc = "returned"

\* the step of the call that runs generateAndStoreUserKeys is next
RunsGenerate(call) ==
    \/ call.pc = "generate"
    \/ (call.pc = "called" /\ call.op = "generateAndStoreUserKeys")

\* the step of the call that reads the record is next
RunsRead(call) ==
    call.pc = "called" /\ call.op \in {"getUserKeys", "getUserKeysDecrypted"}

\* C17: a user has at most one key record, and once it exists no step of any
\* generateAndStoreUserKeys or ensureUserHasKeys call, in any interleaving,
\* changes it; generateAndStoreUserKeys for a user who has a record returns
\* null and writes nothing.
C17_KeyRecordWrittenOnce ==
    [][/\ \A u \in Users : user_keys[u] # NoRow => user_keys'[u] = user_keys[u]
       /\ \A c \in Clients :
            (/\ RunsGenerate(calls[c])
             /\ HasReturned(calls'[c])
             /\ user_keys[calls[c].userId] # NoRow)
                => (calls'[c].ret = Ok(Null) /\ user_keys' = user_keys)]_vars

C17_Witness ==
    \E c \in Clients :
        /\ HasReturned(calls[c])
        /\ calls[c].op = "generateAndStoreUserKeys"
        /\ calls[c].ret = Ok(Null)
        /\ user_keys[calls[c].userId] # NoRow

\* C18: for a user without a key record getUserKeys and getUserKeysDecrypted
\* return null and raise nothing; getUserKeys never raises, and
\* getUserKeysDecrypted raises only if a record exists and the password does
\* not open its blob.
C18_AbsentRecordGivesNull ==
    [][\A c \in Clients :
          (RunsRead(calls[c]) /\ HasReturned(calls'[c])) =>
              /\ user_keys[calls[c].userId] = NoRow => calls'[c].ret = Ok(Null)
              /\ calls[c].op = "getUserKeys" => IsOk(calls'[c].ret)
              /\ ~IsOk(calls'[c].ret) =>
                    /\ user_keys[calls[c].userId] # NoRow
                    /\ ~IsOk(decryptPrivateKey(
                           user_keys[calls[c].userId].encrypted_private_key,
                           calls[c].password))]_vars

C18_Witness ==
    \E c \in Clients :
        /\ HasReturned(calls[c])
        /\ calls[c].op = "getUserKeysDecrypted"
        /\ user_keys[calls[c].userId] = NoRow
        /\ calls[c].ret = Ok(Null)

\* C19: whatever the interleaving of calls for the same user, the value
\* ensureUserHasKeys returns is not null and is the record stored for the
\* user.
C19_EnsureReturnsStoredRecord ==
    \A c \in Clients :
        (HasReturned(calls[c]) /\ calls[c].op = "ensureUserHasKeys") =>
            /\ calls[c].ret.v # Null
            /\ calls[c].ret.v = getUserKeys(user_keys, calls[c].userId)

\* C20: under the row level security policies a session reads the
\* encrypted_private_key of its own row only: getUserKeys gives a record to
\* the session of the record's user and to no other session.
C20_OnlyOwnerReadsBlob ==
    \A c \in Clients :
        (HasReturned(calls[c]) /\ calls[c].op = "getUserKeys"
                               /\ calls[c].ret.v # Null)
            => IsOwner(calls[c].auth, calls[c].userId)

(***************************************************************************)
(* Properties of the conversation list (SpecConversations)                 *)
(***************************************************************************)
Listed == inbox.op = "getConversations"

\* the content is an output of encryptMessage
IsCiphertext(content) == content.kind = "b64" /\ content.buf.kind = "rsa"

\* the row takes part in the list of the call's user
Involves(msg) == msg.sender_id = inbox.userId \/ msg.receiver_id = inbox.userId

\* the rows of the call that belong to the summary conv
RowsOf(conv) ==
    {i \in 1..Len(inbox.data) :
        /\ Involves(inbox.data[i])
        /\ partnerIdOf(inbox.data[i], inbox.userId) = conv.user_id
        /\ listingIdOf(inbox.data[i]) = conv.listing_id}

\* the row whose content the summary conv previews
PreviewedRow(conv) ==
    inbox.data[CHOOSE i \in RowsOf(conv) : \A j \in RowsOf(conv) : i <= j]

\* C21: a stored output of encryptMessage has at least 100 characters, and
\* no summary that getConversations returns has it as last_message, with or
\* without a private key, for the sender and for the receiver.
C21_PreviewNeverCiphertext ==
    Listed =>
        \A i \in 1..Len(inbox.data) : IsCiphertext(inbox.data[i].content) =>
            /\ StringLength(inbox.data[i].content) >= 100
            /\ \A j \in 1..Len(inbox.ret) :
                  inbox.ret[j].last_message # inbox.data[i].content

C21_Witness ==
    /\ Listed
    /\ Len(inbox.data) = 2
    /\ IsCiphertext(inbox.data[1].content)
    /\ IsCiphertext(inbox.data[2].content)
    /\ inbox.data[1].sender_id = inbox.userId
    /\ inbox.data[1].receiver_id # inbox.userId
    /\ inbox.data[2].receiver_id = inbox.userId
    /\ inbox.data[2].sender_id # inbox.userId
    /\ inbox.data[2].listing_id # Null
    /\ inbox.data[1].listing_id = Null
    /\ Truthy(inbox.privateKey)
    /\ Len(inbox.ret) = 2
    /\ inbox.ret[1].last_message = EncryptedIndicator
    /\ inbox.ret[2].last_message = T(<<104, 105>>)

\* the call's user is the receiver of the row and supplied a private key
PreviewDecrypts(msg) == Truthy(inbox.privateKey) /\ msg.receiver_id = inbox.userId

PlaintextOf(content) == TextDecode(content.buf.pt)

IsShortPlainText(content) == content.kind = "text" /\ Len(content.cu) <= 100

PairsOfUser ==
    {keyOf(partnerIdOf(inbox.data[i], inbox.userId), listingIdOf(inbox.data[i])) :
        i \in {k \in 1..Len(inbox.data) : Involves(inbox.data[k])}}

\* C29: getConversations returns one summary for each pair (counterparty,
\* listing id or "general") that occurs among the rows the user sent or
\* received, and no other summary; the unread_count of a summary is the
\* number of rows of its pair that the user received and has not read.
C29_OneSummaryPerPair ==
    Listed =>
        /\ Len(inbox.ret) = Cardinality(PairsOfUser)
        /\ {keyOf(inbox.ret[j].user_id, inbox.ret[j].listing_id) :
               j \in 1..Len(inbox.ret)} = PairsOfUser
        /\ \A j \in 1..Len(inbox.ret) :
              inbox.ret[j].unread_count =
                  Cardinality({i \in RowsOf(inbox.ret[j]) :
                                  /\ inbox.data[i].receiver_id = inbox.userId
                                  /\ ~inbox.data[i].is_read})

C29_Witness ==
    /\ Listed
    /\ Len(inbox.data) = 2
    /\ Len(inbox.ret) = 1
    /\ RowsOf(inbox.ret[1]) = {1, 2}
    /\ inbox.data[1].sender_id # inbox.userId
    /\ inbox.data[2].sender_id # inbox.userId
    /\ inbox.data[1].is_read
    /\ ~inbox.data[2].is_read
    /\ inbox.ret[1].listing_id = General
    /\ inbox.ret[1].unread_count = 1

(***************************************************************************)
(* Properties of repeated protection (SpecProtect)                         *)
(***************************************************************************)
\* C24: any two calls of encryptPrivateKey, also two with the same private
\* key and the same password, return blobs with different salts, different
\* ivs and different ciphertexts.
C24_FreshSaltAndIv ==
    \A i, j \in 1..Len(vault.log) : i # j =>
        /\ vault.log[i].ret.v.salt # vault.log[j].ret.v.salt
        /\ vault.log[i].ret.v.iv # vault.log[j].ret.v.iv
        /\ vault.log[i].ret.v.data # vault.log[j].ret.v.data

C24_Witness ==
    /\ Len(vault.log) = 2
    /\ vault.log[1].privateKey = vault.log[2].privateKey
    /\ vault.log[1].password = vault.log[2].password
    /\ vault.log[1].ret.v # vault.log[2].ret.v

(***************************************************************************)
(* Properties of the key check (SpecKeyCheck)                              *)
(***************************************************************************)
KeyChecked == lastOp.op = "isValidKey"

\* atob accepts the string
Decodes(key) ==
    \/ key.kind = "b64"
    \/ (key.kind = "text" /\ AtobOk(key.cu))

\* C25 (as stated): isValidKey returns true for every string that decodes as
\* base64, a key of the cipher or not, and false for null, undefined,
\* non-strings and strings that do not decode.
C25_TrueForEveryDecodableString ==
    KeyChecked =>
        \A i \in 1..2 :
            lastOp.ret[i] <=> (IsString(lastOp.keys[i]) /\ Decodes(lastOp.keys[i]))

\* C25 (amended): isValidKey returns true for every non-empty string that
\* decodes as base64, a key of the cipher or not, and false for null,
\* undefined, non-strings, the empty string and strings that do not decode.
C25_TrueForNonEmptyDecodableString ==
    KeyChecked =>
        \A i \in 1..2 :
            lastOp.ret[i] <=> (/\ IsString(lastOp.keys[i])
                               /\ lastOp.keys[i] # T(<<>>)
                               /\ Decodes(lastOp.keys[i]))

C25_Witness ==
    /\ KeyChecked
    /\ lastOp.keys[1] = T(<<104, 104>>)
    /\ lastOp.ret[1]
    /\ lastOp.keys[2] = T(<<>>)
    /\ ~lastOp.ret[2]

(***************************************************************************)
(* Properties of the messages page and its subscription (SpecPage)         *)
(***************************************************************************)
\* C26: the message list of the page never shows two entries with the same
\* id, however a send and the INSERT event of its row interleave.
C26_NoDuplicateIds ==
    \A i, j \in 1..Len(page.list) :
        page.list[i].id = page.list[j].id => i = j

\* C27: onMessage is called in the order in which the events arrived,
\* whether or not their callbacks decrypt.
C27_OnMessageInArrivalOrder ==
    \A i, j \in 1..Len(page.log) :
        i < j => page.log[i].seq < page.log[j].seq

\* C30: every onMessage call is made for an INSERT or UPDATE event whose row
\* has the subscribing user as sender or receiver; no event gets two calls;
\* a DELETE event and an event for a row between other users get none.
C30_OnMessageOnlyForOwnRows ==
    /\ \A i \in 1..Len(page.log) :
          /\ page.log[i].event.eventType \in {"INSERT", "UPDATE"}
          /\ \/ page.log[i].event.new.sender_id = PageUser
             \/ page.log[i].event.new.receiver_id = PageUser
          /\ page.log[i].message.id = page.log[i].event.new.id
    /\ \A i, j \in 1..Len(page.log) :
          page.log[i].seq = page.log[j].seq => i = j

C30_Witness ==
    /\ page.pc = "open"
    /\ page.arrived = 4
    /\ page.awaiting = {}
    /\ Len(page.log) = 2
    /\ page.log[1].event.eventType = "INSERT"
    /\ page.log[2].event.eventType = "UPDATE"
    /\ \E i \in 1..Len(messages) :
          /\ messages[i] # Deleted
          /\ messages[i].sender_id # PageUser
          /\ messages[i].receiver_id # PageUser

====
